---- MODULE Spec2Model ----
(***************************************************************************)
(* Model of pysmt/solvers/solver.py: one IncrementalTrackingSolver session *)
(* (class Solver plus the tracking layer) driven by an arbitrary caller.   *)
(* The backend proxies (_push, _pop, _add_assertion, _solve,               *)
(* _reset_assertions, _exit) are abstract in the source: every call to one *)
(* of them either returns or raises, chosen nondeterministically.          *)
(***************************************************************************)
EXTENDS Integers, Sequences, FiniteSets, TLC

\* ------------------------------------------------------------------ bounds
MaxAssert == 2      \* longest assertion stack explored
MaxLevels == 2      \* most push levels opened (by successful calls) at once
MaxK == 2           \* largest `levels` argument of push / pop
MaxExitCalls == 3   \* most invocations of the backend _exit explored
MaxNest == 2        \* deepest nesting of `with solver:` blocks
MaxFormulae == 2    \* longest list of formulae given to get_py_values

Formulas == {"f", "g"}
Levels == 0..MaxK
\* the assumptions of a solve call: none, or one literal
Assumptions == {{}} \cup {{a} : a \in Formulas}

\* ------------------------------------------------------------------- state
VARIABLES
    push_supported,    \* the backend implements _push (else NotImplementedError)
    pending_pop,       \* Solver.pending_pop
    destroyed,         \* Solver._destroyed
    last_result,       \* IncrementalTrackingSolver._last_result
    last_command,      \* IncrementalTrackingSolver._last_command
    assertion_stack,   \* IncrementalTrackingSolver._assertion_stack
    backtrack_points,  \* IncrementalTrackingSolver._backtrack_points
    exit_calls,        \* observer: number of invocations of _exit so far
    exit_done,         \* observer: number of _exit invocations that returned
    in_block,          \* observer: depth of `with solver:` blocks entered
    open_levels,       \* observer: levels opened minus levels closed by successful calls
    snap,              \* observer: per level open in the tracker, the assertions
                       \* tracked when it was opened
    options,           \* Solver.options
    frames,            \* reference: a scoped assertion set run side by side
    all_ok,            \* reference: every call so far returned
    ep,                \* observer: the levels of the latest push not yet popped
    last               \* observer: the last call, its inputs, outcome and pre-state

vars == <<push_supported, pending_pop, destroyed, last_result, last_command,
          assertion_stack, backtrack_points, exit_calls, exit_done, in_block,
          open_levels, snap, options, frames, all_ok, ep, last>>

ref == <<frames, all_ok, ep>>

tracker == <<last_result, last_command, assertion_stack, backtrack_points>>

\* ----------------------------------------------------------------- helpers
Min(a, b) == IF a <= b THEN a ELSE b

\* _add_assertion(formula) returns the token that is tracked for formula
TokenOf(formula) == <<"tok", formula>>
FormulaOf(token) == token[2]
FormulasOf(stack) == {FormulaOf(stack[i]) : i \in 1..Len(stack)}

\* the property `assertions`: the live list itself
assertions == assertion_stack

SliceOneLess(stack, point) == SubSeq(stack, 1, Min(point - 1, Len(stack)))
SliceKeepOne(stack, point) == SubSeq(stack, 1, Min(point + 1, Len(stack)))
\* list[0:point]
Slice(stack, point) == SubSeq(stack, 1, Min(point, Len(stack)))

AppendPointsOnce(points, point, levels) ==
    points \o (IF levels > 0 THEN <<point>> ELSE <<>>)
AppendPointsOffByOne(points, point, levels) ==
    points \o [i \in 1..levels |-> point - 1]
\* for _ in xrange(levels): self._backtrack_points.append(point)
AppendPoints(points, point, levels) == points \o [i \in 1..levels |-> point]

PopLoopOnce(stack, points, levels) ==
    IF levels <= 0 THEN [stack |-> stack, points |-> points, raised |-> FALSE]
    ELSE IF Len(points) < levels
         THEN [stack |-> stack, points |-> <<>>, raised |-> TRUE]
    ELSE [stack |-> Slice(stack, points[Len(points)]),
          points |-> SubSeq(points, 1, Len(points) - levels), raised |-> FALSE]
\* for _ in xrange(levels): point = points.pop(); stack = stack[0:point]
\* raised is TRUE when points.pop() is reached with points empty (IndexError)
RECURSIVE PopLoop(_, _, _)
PopLoop(stack, points, levels) ==
    IF levels <= 0 THEN [stack |-> stack, points |-> points, raised |-> FALSE]
    ELSE IF points = <<>> THEN [stack |-> stack, points |-> points, raised |-> TRUE]
    ELSE PopLoop(Slice(stack, points[Len(points)]),
                 SubSeq(points, 1, Len(points) - 1), levels - 1)

\* outcomes of the backend proxies
ProxyOutcomes == {"ok", "Error"}
PushOutcomes == IF push_supported THEN {"ok", "Error"} ELSE {"NotImplementedError"}
SolveOutcomes == {"True", "False", "UnknownResult", "Error"}
Returned(so) == so \in {"True", "False"}

ProceedsAlways(po) == TRUE
\* push and pop call the proxy first: the bookkeeping that follows the call
\* runs only when the proxy returned
Proceeds(po) == po = "ok"

SolveLastResultStale(so, old) == IF Returned(so) THEN so ELSE old
\* solve(): value of _last_result after the call
SolveLastResult(so, old) ==
    IF Returned(so) THEN so
    ELSE IF so = "UnknownResult" THEN "unknown"
    ELSE old

SolveLastCommandOnReturn(so, old) == IF Returned(so) THEN "solve" ELSE old
\* solve(): value of _last_command after the call (finally clause)
SolveLastCommand(so, old) == "solve"

PendingPopNever(marked) == pending_pop
PendingPopAlways(marked) == TRUE
\* is_sat: value of pending_pop after the call; marked: the push path's
\* solve() returned
PendingPopAfter(marked) == IF marked THEN TRUE ELSE pending_pop

ExitRetTrue == "True"
\* the value __exit__ returns (it has no return statement)
ExitRet == "None"

\* the record of a call: what was called with what, and the state it found
Call(op, k, formula, outcome, ret, calls, seen, closed) ==
    [op |-> op, k |-> k, f |-> formula, outcome |-> outcome, ret |-> ret,
     calls |-> calls, seen |-> seen, closed |-> closed, blk |-> "none",
     prop |-> IF outcome = "ok" THEN "none" ELSE outcome,
     pre_as |-> assertion_stack, pre_bt |-> backtrack_points,
     pre_pp |-> pending_pop, pre_lr |-> last_result, pre_destroyed |-> destroyed,
     uo |-> <<>>, fs |-> <<>>, vals |-> <<>>, pyvals |-> <<>>]

NoCall == [op |-> "__init__", k |-> 0, f |-> "none", outcome |-> "ok", ret |-> "None",
           calls |-> <<>>, seen |-> {}, closed |-> <<>>, blk |-> "none",
           prop |-> "none",
           pre_as |-> <<>>, pre_bt |-> <<>>, pre_pp |-> FALSE,
           pre_lr |-> "None", pre_destroyed |-> FALSE,
           uo |-> <<>>, fs |-> <<>>, vals |-> <<>>, pyvals |-> <<>>]


\* SolverOptions(): an object with its two attributes at their defaults
SolverOptions == [generate_models |-> "True", unsat_cores_mode |-> "None"]

\* setattr(obj, k, v): sets the attribute, creating it when obj has none
SetAttr(obj, k, v) == [a \in DOMAIN obj \cup {k} |-> IF a = k THEN v ELSE obj[a]]

OptionKeysAll == <<"generate_models", "unsat_cores_mode", "random_seed">>
\* the keys get_default_options looks up in user_options, in its order
OptionKeys == <<"generate_models", "unsat_cores_mode">>

\* for k in keys: if k in user_options: setattr(res, k, user_options[k])
RECURSIVE ApplyKeys(_, _, _)
ApplyKeys(res, keys, d) ==
    IF keys = <<>> THEN res
    ELSE ApplyKeys(IF Head(keys) \in DOMAIN d
                   THEN SetAttr(res, Head(keys), d[Head(keys)])
                   ELSE res,
                   Tail(keys), d)

\* Solver.get_default_options(logic, user_options); user_options is <<>> for
\* None and <<d>> for the dictionary d
get_default_options(logic, uo) ==
    IF uo = <<>> THEN SolverOptions ELSE ApplyKeys(SolverOptions, OptionKeys, uo[1])

\* the user_options a caller passes: None, or a dictionary over some keys
UserKeys == {"generate_models", "unsat_cores_mode", "random_seed"}
OptionValues == {"True", "False", "None"}
UserOptions ==
    {<<>>} \cup {<<d>> : d \in UNION {[K -> OptionValues] : K \in SUBSET UserKeys}}
Logics == {"None", "QF_BOOL"}

\* what get_value gives for a formula: a constant node, a node that is not
\* a constant, or an exception
Nodes == {<<"const", "True">>, <<"const", "False">>, <<"symbol", "x">>}
GetValueOutcomes == Nodes \cup {<<"raise", "Error">>}
is_constant(node) == node[1] = "const"
constant_value(node) == node[2]

PyValueUnchecked(node) ==
    IF node[1] = "raise" THEN [outcome |-> node[2], ret |-> "None"]
    ELSE [outcome |-> "ok", ret |-> constant_value(node)]
\* get_py_value: res = get_value(formula); assert res.is_constant();
\* return res.constant_value()
PyValue(node) ==
    IF node[1] = "raise" THEN [outcome |-> node[2], ret |-> "None"]
    ELSE IF ~is_constant(node) THEN [outcome |-> "AssertionError", ret |-> "None"]
    ELSE [outcome |-> "ok", ret |-> constant_value(node)]

\* get_py_values: res = {}; for f in formulae: res[f] = get_py_value(f);
\* m[f] is what get_value gives for f
RECURSIVE PyValues(_, _, _)
PyValues(res, formulae, m) ==
    IF formulae = <<>> THEN [outcome |-> "ok", res |-> res]
    ELSE LET v == PyValue(m[Head(formulae)])
         IN IF v.outcome # "ok" THEN [outcome |-> v.outcome, res |-> <<>>]
            ELSE PyValues(SetAttr(res, Head(formulae), v.ret), Tail(formulae), m)

PyValueOps == {"Solver.get_py_value", "Model.get_py_value"}
PyValuesOps == {"Solver.get_py_values", "Model.get_py_values"}
FormulaLists == UNION {[1..n -> Formulas] : n \in 0..MaxFormulae}

\* the reference at construction: one frame, no call yet, no push yet
NoFrames == << <<>> >>
NoEp == [base |-> <<>>, k |-> 0, left |-> 0, grown |-> FALSE]

\* -------------------------------------------------------------------- Init
\* Solver.__init__ and IncrementalTrackingSolver.__init__
Init ==
    /\ push_supported \in BOOLEAN
    /\ pending_pop = FALSE
    /\ destroyed = FALSE
    /\ last_result = "None"
    /\ last_command = "None"
    /\ assertion_stack = <<>>
    /\ backtrack_points = <<>>
    /\ exit_calls = 0
    /\ exit_done = 0
    /\ in_block = 0
    /\ open_levels = 0
    /\ snap = <<>>
    /\ options = get_default_options("QF_BOOL", <<>>)
    /\ frames = NoFrames
    /\ all_ok = TRUE
    /\ ep = NoEp
    /\ last = NoCall

\* ----------------------------------------------------------------- actions
\* IncrementalTrackingSolver.add_assertion(formula)
add_assertion(formula, ao) ==
    /\ Len(assertion_stack) < MaxAssert
    /\ IF ao = "ok"
       THEN /\ assertion_stack' = Append(assertion_stack, TokenOf(formula))
            /\ last_command' = "assert"
       ELSE UNCHANGED <<assertion_stack, last_command>>
    /\ last' = Call("add_assertion", 0, formula, ao, "None", <<"_add_assertion">>, {}, <<>>)
    /\ UNCHANGED <<push_supported, pending_pop, destroyed, last_result,
                   backtrack_points, exit_calls, exit_done, in_block, open_levels, snap,
                   options>>

\* IncrementalTrackingSolver.solve(assumptions)
solve(assumptions, so) ==
    /\ last_result' = SolveLastResult(so, last_result)
    /\ last_command' = SolveLastCommand(so, last_command)
    /\ last' = Call("solve", 0, "none", IF Returned(so) THEN "ok" ELSE so,
                    IF Returned(so) THEN so ELSE "None", <<"_solve">>,
                    FormulasOf(assertion_stack) \cup assumptions, <<>>)
    /\ UNCHANGED <<push_supported, pending_pop, destroyed, assertion_stack,
                   backtrack_points, exit_calls, exit_done, in_block, open_levels, snap,
                   options, ref>>

\* IncrementalTrackingSolver.push(levels)
push(levels, po) ==
    /\ open_levels + levels <= MaxLevels
    /\ IF Proceeds(po)
       THEN /\ backtrack_points' =
                   AppendPoints(backtrack_points, Len(assertion_stack), levels)
            /\ last_command' = "push"
            /\ open_levels' = open_levels + levels
            /\ snap' = snap \o [i \in 1..levels |-> assertion_stack]
       ELSE UNCHANGED <<backtrack_points, last_command, open_levels, snap>>
    /\ last' = Call("push", levels, "none", po, "None", <<"_push">>, {}, <<>>)
    /\ UNCHANGED <<push_supported, pending_pop, destroyed, last_result,
                   assertion_stack, exit_calls, exit_done, in_block, options>>

\* IncrementalTrackingSolver.pop(levels)
pop(levels, po) ==
    LET r == PopLoop(assertion_stack, backtrack_points, levels)
        n == Len(backtrack_points) - Len(r.points)
    IN
    /\ IF Proceeds(po)
       THEN /\ assertion_stack' = r.stack
            /\ backtrack_points' = r.points
            /\ last_command' = IF r.raised THEN last_command ELSE "pop"
            /\ open_levels' = IF r.raised THEN open_levels ELSE open_levels - levels
            /\ snap' = SubSeq(snap, 1, Len(r.points))
            /\ last' = Call("pop", levels, "none",
                            IF po # "ok" THEN po
                            ELSE IF r.raised THEN "IndexError" ELSE "ok",
                            "None", <<"_pop">>, {},
                            [i \in 1..n |-> snap[Len(snap) + 1 - i]])
       ELSE /\ UNCHANGED <<assertion_stack, backtrack_points, last_command,
                           open_levels, snap>>
            /\ last' = Call("pop", levels, "none", po, "None", <<"_pop">>, {}, <<>>)
    /\ UNCHANGED <<push_supported, pending_pop, destroyed, last_result,
                   exit_calls, exit_done, in_block, options>>

\* IncrementalTrackingSolver.reset_assertions()
reset_assertions(ro) ==
    /\ last_command' = IF ro = "ok" THEN "reset_assertions" ELSE last_command
    /\ last' = Call("reset_assertions", 0, "none", ro, "None", <<"_reset_assertions">>, {}, <<>>)
    /\ UNCHANGED <<push_supported, pending_pop, destroyed, last_result,
                   assertion_stack, backtrack_points, exit_calls, exit_done,
                   in_block, open_levels, snap, options, ref>>

\* is_sat consults the outcome of a proxy only when it reaches the call; an
\* outcome that is not consulted is fixed, so that no run is enumerated twice
Consulted(member, po, ao, so) ==
    /\ ~member => po # "Error"
    /\ (~member \/ po # "ok") => ao = "ok"
    /\ (~member \/ po = "Error" \/ (po = "ok" /\ ao # "ok")) => so = "True"

\* Solver.is_sat(formula); member: formula belongs to the formula manager
is_sat(formula, member, po, ao, so) ==
    LET pushed == member /\ po = "ok"
        added == pushed /\ ao = "ok"
        solved == member /\ (po = "NotImplementedError" \/ added)
        outcome == IF ~member THEN "AssertionError"
                   ELSE IF po = "Error" THEN po
                   ELSE IF pushed /\ ao # "ok" THEN ao
                   ELSE IF Returned(so) THEN "ok" ELSE so
        stack1 == IF added THEN Append(assertion_stack, TokenOf(formula))
                  ELSE assertion_stack
        calls == IF ~member THEN <<>>
                 ELSE IF po = "Error" THEN <<"push">>
                 ELSE IF po = "NotImplementedError" THEN <<"push", "solve([formula])">>
                 ELSE IF ao # "ok" THEN <<"push", "add_assertion">>
                 ELSE <<"push", "add_assertion", "solve()">>
    IN
    /\ Consulted(member, po, ao, so)
    /\ pushed => (open_levels + 1 <= MaxLevels /\ Len(assertion_stack) < MaxAssert)
    /\ backtrack_points' =
           IF pushed THEN AppendPoints(backtrack_points, Len(assertion_stack), 1)
           ELSE backtrack_points
    /\ open_levels' = IF pushed THEN open_levels + 1 ELSE open_levels
    /\ snap' = IF pushed THEN Append(snap, assertion_stack) ELSE snap
    /\ assertion_stack' = stack1
    /\ last_result' = IF solved THEN SolveLastResult(so, last_result) ELSE last_result
    /\ last_command' = IF solved THEN SolveLastCommand(so, last_command)
                       ELSE IF added THEN "assert"
                       ELSE IF pushed THEN "push"
                       ELSE last_command
    /\ pending_pop' = PendingPopAfter(added /\ Returned(so))
    /\ last' = Call("is_sat", 0, formula, outcome,
                    IF outcome = "ok" THEN so ELSE "None", calls,
                    IF solved
                    THEN FormulasOf(stack1) \cup (IF added THEN {} ELSE {formula})
                    ELSE {}, <<>>)
    /\ UNCHANGED <<push_supported, destroyed, exit_calls, exit_done, in_block,
                   options, ref>>

\* Solver.exit(): outcome, proxy calls and state after, xo the outcome of _exit
ExitOutcome(xo) == IF destroyed THEN "ok" ELSE xo
ExitCalls == IF destroyed THEN <<>> ELSE <<"_exit">>
DestroyedNever(xo) == destroyed
DestroyedAfter(xo) == destroyed \/ xo = "ok"
Release(xo) ==
    /\ ~destroyed => exit_calls < MaxExitCalls
    /\ exit_calls' = exit_calls + Len(ExitCalls)
    /\ exit_done' = IF ~destroyed /\ xo = "ok" THEN exit_done + 1 ELSE exit_done
    /\ destroyed' = DestroyedAfter(xo)

exit(xo) ==
    /\ Release(xo)
    /\ last' = Call("exit", 0, "none", ExitOutcome(xo), "None", ExitCalls, {}, <<>>)
    /\ UNCHANGED <<push_supported, pending_pop, tracker, in_block, open_levels, snap,
                   options, ref>>

\* Solver.__enter__(): returns the solver itself
enter ==
    /\ in_block < MaxNest
    /\ in_block' = in_block + 1
    /\ last' = Call("__enter__", 0, "none", "ok", "self", <<>>, {}, <<>>)
    /\ UNCHANGED <<push_supported, pending_pop, destroyed, tracker, exit_calls,
                   exit_done, open_levels, snap, options, ref>>

\* what leaves a `with` statement whose body raised blk ("none": it did not),
\* given the outcome of __exit__ and the value it returned
Propagated(blk, outcome, ret) ==
    IF outcome # "ok" THEN outcome
    ELSE IF blk # "none" /\ ret \in {"None", "False"} THEN blk
    ELSE "none"

\* Solver.__exit__(exc_type, exc_val, exc_tb) at the end of a `with` block
leave(blk, xo) ==
    /\ in_block > 0
    /\ in_block' = in_block - 1
    /\ Release(xo)
    /\ last' = [Call("__exit__", 0, "none", ExitOutcome(xo), ExitRet, <<"exit">> \o ExitCalls,
                     {}, <<>>)
                EXCEPT !.blk = blk, !.prop = Propagated(blk, ExitOutcome(xo), ExitRet)]
    /\ UNCHANGED <<push_supported, pending_pop, tracker, open_levels, snap,
                   options, ref>>

\* Solver.__init__ and IncrementalTrackingSolver.__init__: a solver is
\* constructed (in place of the current one) with the given arguments
construct(logic, uo) ==
    /\ IF logic = "None"
       THEN /\ last' = [Call("__init__", 0, "none", "ValueError", "None", <<>>, {}, <<>>)
                        EXCEPT !.uo = uo]
            /\ UNCHANGED <<pending_pop, destroyed, tracker, options>>
       ELSE /\ pending_pop' = FALSE
            /\ options' = get_default_options(logic, uo)
            /\ destroyed' = FALSE
            /\ last_result' = "None"
            /\ last_command' = "None"
            /\ assertion_stack' = <<>>
            /\ backtrack_points' = <<>>
            /\ last' = [Call("__init__", 0, "none", "ok", "None",
                              <<"get_default_options">>, {}, <<>>)
                        EXCEPT !.uo = uo]
    /\ UNCHANGED <<push_supported, exit_calls, exit_done, in_block, open_levels, snap, ref>>

\* Solver.get_py_value(formula) and Model.get_py_value(formula); node is
\* what get_value gives
get_py_value(op, formula, node) ==
    /\ last' = [Call(op, 0, formula, PyValue(node).outcome, PyValue(node).ret,
                      <<"get_value">>, {}, <<>>)
                EXCEPT !.vals = [x \in {formula} |-> node]]
    /\ UNCHANGED <<push_supported, pending_pop, destroyed, tracker, exit_calls,
                   exit_done, in_block, open_levels, snap, options, ref>>

\* Solver.get_py_values(formulae) and Model.get_py_values(formulae)
get_py_values(op, formulae, m) ==
    LET r == PyValues(<<>>, formulae, m)
    IN
    /\ last' = [Call(op, 0, "none", r.outcome, "None", <<"get_py_value">>, {}, <<>>)
                EXCEPT !.fs = formulae, !.vals = m, !.pyvals = r.res]
    /\ UNCHANGED <<push_supported, pending_pop, destroyed, tracker, exit_calls,
                   exit_done, in_block, open_levels, snap, options, ref>>

\* A scoped assertion set run side by side with the tracking layer: push opens
\* empty frames, add_assertion appends the token to the top frame, pop discards
\* the top frames. all_ok: every call so far has returned normally; the
\* reference is given up (one empty frame) at the first call that does not.
RECURSIVE Flatten(_)
Flatten(fs) == IF fs = <<>> THEN <<>> ELSE Head(fs) \o Flatten(Tail(fs))

RefAdd(formula, ao) ==
    /\ all_ok' = (all_ok /\ ao = "ok")
    /\ frames' = IF all_ok'
                 THEN [frames EXCEPT ![Len(frames)] = Append(@, TokenOf(formula))]
                 ELSE NoFrames
    /\ UNCHANGED ep

RefPush(levels, po) ==
    /\ all_ok' = (all_ok /\ po = "ok")
    /\ frames' = IF all_ok' THEN frames \o [i \in 1..levels |-> <<>>] ELSE NoFrames
    /\ UNCHANGED ep

RefPop(levels, po) ==
    /\ all_ok' = (all_ok /\ last'.outcome = "ok")
    /\ frames' = IF all_ok' THEN SubSeq(frames, 1, Len(frames) - levels) ELSE NoFrames
    /\ UNCHANGED ep

\* ep follows the last push(levels >= 1): the assertions at the push, the levels
\* it opened, those not yet closed by a pop(1), whether an assertion was added.
\* A call whose backend call raises changes nothing and leaves ep alone.
EpAdd(ao) ==
    /\ ep' = IF ao # "ok" \/ ep.k = 0 THEN ep
             ELSE IF ep.left = ep.k THEN [ep EXCEPT !.grown = TRUE]
             ELSE NoEp
    /\ UNCHANGED <<frames, all_ok>>

EpPush(levels, po) ==
    /\ ep' = IF po # "ok" THEN ep
             ELSE IF levels >= 1
             THEN [base |-> assertions, k |-> levels, left |-> levels, grown |-> FALSE]
             ELSE NoEp
    /\ UNCHANGED <<frames, all_ok>>

EpPop(levels, po) ==
    /\ ep' = IF po # "ok" THEN ep
             ELSE IF levels = 1 /\ ep.left > 0 THEN [ep EXCEPT !.left = @ - 1]
             ELSE NoEp
    /\ UNCHANGED <<frames, all_ok>>

\* the calls of the assertion-tracking layer
Next ==
    \/ \E formula \in Formulas, ao \in ProxyOutcomes :
          add_assertion(formula, ao) /\ UNCHANGED ref
    \/ \E assumptions \in Assumptions, so \in SolveOutcomes : solve(assumptions, so)
    \/ \E levels \in Levels, po \in PushOutcomes : push(levels, po) /\ UNCHANGED ref
    \/ \E levels \in Levels, po \in ProxyOutcomes : pop(levels, po) /\ UNCHANGED ref
    \/ \E ro \in ProxyOutcomes : reset_assertions(ro)
    \/ \E formula \in Formulas, member \in BOOLEAN, po \in PushOutcomes,
          ao \in ProxyOutcomes, so \in SolveOutcomes :
              is_sat(formula, member, po, ao, so)

\* the calls of the session's life cycle; they read and write _destroyed
\* only, which no call of the tracking layer reads or writes
NextLife ==
    \/ \E xo \in ProxyOutcomes : exit(xo)
    \/ enter
    \/ \E blk \in {"none", "BlockError"}, xo \in ProxyOutcomes : leave(blk, xo)

\* construction and the value queries; they leave the tracked state alone
NextQuery ==
    \/ \E logic \in Logics, uo \in UserOptions : construct(logic, uo)
    \/ \E op \in PyValueOps, formula \in Formulas, node \in GetValueOutcomes :
          get_py_value(op, formula, node)
    \/ \E op \in PyValuesOps, formulae \in FormulaLists,
          m \in [Formulas -> GetValueOutcomes] : get_py_values(op, formulae, m)

\* the stack calls of the tracking layer, with the reference beside them
NextStack ==
    \/ \E formula \in Formulas, ao \in ProxyOutcomes :
          add_assertion(formula, ao) /\ RefAdd(formula, ao)
    \/ \E levels \in Levels, po \in PushOutcomes :
          push(levels, po) /\ RefPush(levels, po)
    \/ \E levels \in Levels, po \in ProxyOutcomes :
          pop(levels, po) /\ RefPop(levels, po)

\* the stack calls of the tracking layer, following the last push
NextEpisode ==
    \/ \E formula \in Formulas, ao \in ProxyOutcomes :
          add_assertion(formula, ao) /\ EpAdd(ao)
    \/ \E levels \in Levels, po \in PushOutcomes :
          push(levels, po) /\ EpPush(levels, po)
    \/ \E levels \in Levels, po \in ProxyOutcomes :
          pop(levels, po) /\ EpPop(levels, po)

Spec == Init /\ [][Next]_vars
StackSpec == Init /\ [][NextStack]_vars
EpisodeSpec == Init /\ [][NextEpisode]_vars
QuerySpec == Init /\ [][NextQuery]_vars
LifeSpec == Init /\ [][NextLife]_vars
\* ------------------------------------------------------------------ claims
IsPrefix(s, t) == Len(s) <= Len(t) /\ s = SubSeq(t, 1, Len(s))
ReachedSolve(c) ==
    c.calls # <<>> /\ c.calls[Len(c.calls)] \in {"solve()", "solve([formula])"}
Closing(c) == c.op \in {"exit", "__exit__"}

\* C1: a successful push(k), k >= 1, immediately followed by a successful
\* pop(k) leaves `assertions` with the tokens, the order and the length it
\* had before the pair.
C1_PushPopRoundTrip ==
    [][(/\ last.op = "push" /\ last.outcome = "ok" /\ last.k >= 1
        /\ last'.op = "pop" /\ last'.outcome = "ok" /\ last'.k = last.k)
       => (/\ assertions' = last.pre_as
           /\ Len(assertions') = Len(last.pre_as))]_vars

\* a pop(2) has closed the two levels that one push(2) opened (they record
\* the same list), nothing was asserted in between, and assertions are tracked
C1_Witness ==
    /\ last.op = "pop" /\ last.outcome = "ok" /\ last.k = 2
    /\ Len(last.closed) = 2
    /\ \A i \in 1..2 : last.closed[i] = last.pre_as
    /\ assertions = last.pre_as
    /\ Len(assertions) >= 1

\* C2: a successful pop(1) leaves in `assertions` exactly the tokens that were
\* tracked when the level it closes was opened, in their order (it removes
\* the tokens added since and no other), and last_command is "pop". This is
\* stated of every level, so also of those opened by push(1).
C2_PopRestoresPushPoint ==
    (last.op = "pop" /\ last.outcome = "ok" /\ last.k = 1)
    => (/\ assertions = last.closed[1]
        /\ IsPrefix(assertions, last.pre_as)
        /\ last_command = "pop")

\* the scenario: T1 tracked when the level was opened, T2 asserted later and
\* removed by the pop, after a solve that returned True
C2_Witness ==
    /\ last.op = "pop" /\ last.outcome = "ok" /\ last.k = 1
    /\ Len(last.closed[1]) = 1
    /\ Len(last.pre_as) = 2
    /\ assertions = last.closed[1]
    /\ last_result = "True"
    /\ last_command = "pop"

\* C3: pop(levels) with levels greater than the number of open levels fails
\* and leaves the assertion stack as it was.
C3_UnderflowLeavesStack ==
    (last.op = "pop" /\ last.k > Len(last.pre_bt))
    => (last.outcome # "ok" /\ assertions = last.pre_as)

\* C4: is_sat(f) followed by is_sat(g): the solve of is_sat(g) is evaluated
\* against the assertions in force before is_sat(f) plus g, on both paths.
C4_IsSatDoesNotLeak ==
    [][(/\ last.op = "is_sat" /\ last.outcome = "ok"
        /\ last'.op = "is_sat" /\ ReachedSolve(last'))
       => last'.seen = FormulasOf(last.pre_as) \cup {last'.f}]_vars

\* C5: when _solve raises the unknown-result error, the error reaches the
\* caller, last_result is "unknown" and last_command is "solve".
C5_UnknownIsRecorded ==
    (last.op = "solve" /\ last.outcome = "UnknownResult")
    => (/\ last.prop = "UnknownResult"
        /\ last_result = "unknown"
        /\ last_command = "solve")

\* a solve raised the unknown-result error after an earlier solve returned True
C5_Witness ==
    /\ last.op = "solve" /\ last.outcome = "UnknownResult"
    /\ last.pre_lr = "True"
    /\ last_result = "unknown"

\* C6: the length of the backtrack-point stack equals the levels opened by
\* successful pushes minus the levels closed by successful pops.
C6_PointsCountOpenLevels == Len(backtrack_points) = open_levels

\* C7: after a successful reset_assertions `assertions` is empty and the
\* open levels are not closed.
C7_ResetClearsAssertions ==
    (last.op = "reset_assertions" /\ last.outcome = "ok")
    => (assertions = <<>> /\ backtrack_points = last.pre_bt)

\* C8 as stated: _exit is invoked at most once, and an exit() on a destroyed
\* solver neither invokes _exit nor raises.
C8_ExitInvokedAtMostOnce ==
    /\ exit_calls <= 1
    /\ (Closing(last) /\ last.pre_destroyed)
       => (last.outcome = "ok" /\ last.calls \in {<<>>, <<"exit">>})

\* C8 as amended: _exit returns at most once, and an exit() on a destroyed
\* solver neither invokes _exit nor raises and leaves the solver destroyed.
C8_ExitReleasesAtMostOnce ==
    /\ exit_done <= 1
    /\ (Closing(last) /\ last.pre_destroyed)
       => (last.outcome = "ok" /\ last.calls \in {<<>>, <<"exit">>} /\ destroyed)

\* an exit() on a solver that an earlier exit() destroyed
C8_Witness ==
    /\ last.op = "exit" /\ last.pre_destroyed
    /\ exit_calls = 1 /\ exit_done = 1

\* C9 as stated: when a managed block is left, exit() was invoked, _exit has
\* been called exactly once, and an exception of the block is not swallowed;
\* __enter__ returns the solver.
C9_ScopeExitCallsExitOnce ==
    /\ last.op = "__enter__" => last.ret = "self"
    /\ last.op = "__exit__"
       => (/\ last.calls[1] = "exit"
           /\ exit_calls = 1
           /\ last.blk # "none" => last.prop # "none")

\* C9 as amended: when a managed block is left, exit() was invoked, _exit
\* has been called at least once and has returned at most once (it was called
\* exactly once if no call of it raised), the solver is destroyed unless
\* _exit raised, and an exception of the block is not swallowed.
C9_ScopeExitReleases ==
    /\ last.op = "__enter__" => last.ret = "self"
    /\ last.op = "__exit__"
       => (/\ last.calls[1] = "exit"
           /\ exit_calls >= 1 /\ exit_done <= 1
           /\ exit_done = exit_calls => exit_calls = 1
           /\ last.outcome = "ok" => destroyed
           /\ last.blk # "none" => last.prop # "none")

\* a block left by an exception: the scope exit released the solver and the
\* exception of the block propagates
C9_Witness ==
    /\ last.op = "__exit__" /\ last.blk = "BlockError" /\ last.outcome = "ok"
    /\ ~last.pre_destroyed /\ destroyed
    /\ exit_calls = 1
    /\ last.prop = "BlockError"

\* C10: on a backend without push, is_sat calls push and then only
\* solve([formula]), returns the result of that solve, and leaves the
\* assertions, the open levels and pending_pop (False) as they were.
C10_FallbackLeavesNoTrace ==
    (last.op = "is_sat" /\ ~push_supported /\ last.outcome # "AssertionError")
    => (/\ last.calls = <<"push", "solve([formula])">>
        /\ last.seen = FormulasOf(last.pre_as) \cup {last.f}
        /\ assertions = last.pre_as
        /\ backtrack_points = last.pre_bt
        /\ open_levels = Len(last.pre_bt)
        /\ pending_pop = FALSE /\ last.pre_pp = FALSE
        /\ last.outcome = "ok" => (last.ret = last_result /\ last.ret \in {"True", "False"}))

\* is_sat(g) returned False on a backend without push while f stays asserted
C10_Witness ==
    /\ last.op = "is_sat" /\ ~push_supported /\ last.outcome = "ok"
    /\ last.ret = "False"
    /\ assertions # <<>>
    /\ last.f \notin FormulasOf(assertions)

\* C11: a new solver's options have generate_models = True and
\* unsat_cores_mode = None unless user_options holds the key, whose value then
\* overrides the default; any other key of user_options is dropped: it
\* creates no attribute, and construction does not fail.
C11_OptionsFromWhitelist ==
    (last.op = "__init__" /\ last.outcome = "ok")
    => (/\ DOMAIN options = {"generate_models", "unsat_cores_mode"}
        /\ \A key \in DOMAIN options :
              options[key] =
                  IF last.uo # <<>> /\ key \in DOMAIN last.uo[1]
                  THEN last.uo[1][key]
                  ELSE IF key = "generate_models" THEN "True" ELSE "None")

\* constructed with generate_models = False and a key that is not recognized
C11_Witness ==
    /\ last.op = "__init__" /\ last.outcome = "ok" /\ last.uo # <<>>
    /\ DOMAIN last.uo[1] = {"generate_models", "random_seed"}
    /\ last.uo[1]["generate_models"] = "False"
    /\ options = [generate_models |-> "False", unsat_cores_mode |-> "None"]

\* C12: get_py_value fails with an assertion error when get_value gives a
\* node that is not a constant and returns the constant's value when it is
\* one; get_py_values fails as a whole (it returns no dictionary) when one of
\* its formulae evaluates to a non-constant, and otherwise maps each formula
\* to the value of its constant.
C12_PyValueIsConstant ==
    /\ last.op \in PyValueOps
       => LET node == last.vals[last.f]
          IN /\ node[1] = "symbol" => (last.outcome = "AssertionError" /\ last.ret = "None")
             /\ node[1] = "const" => (last.outcome = "ok" /\ last.ret = node[2])
             /\ last.ret # "x"
    /\ last.op \in PyValuesOps
       => /\ (\E i \in 1..Len(last.fs) : last.vals[last.fs[i]][1] = "symbol")
                => (last.outcome # "ok" /\ DOMAIN last.pyvals = {})
          /\ last.outcome = "ok"
                => (/\ DOMAIN last.pyvals = {last.fs[i] : i \in 1..Len(last.fs)}
                    /\ \A i \in 1..Len(last.fs) :
                          /\ last.vals[last.fs[i]][1] = "const"
                          /\ last.pyvals[last.fs[i]] = last.vals[last.fs[i]][2])

\* get_py_values failed on its second formula, the first being a constant
C12_Witness ==
    /\ last.op = "Model.get_py_values" /\ Len(last.fs) = 2
    /\ last.vals[last.fs[1]][1] = "const"
    /\ last.vals[last.fs[2]][1] = "symbol"
    /\ last.outcome = "AssertionError"

StackMutating == {"push", "pop", "add_assertion", "reset_assertions", "is_sat"}
NonDecreasing(points) == \A i \in 1..(Len(points) - 1) : points[i] <= points[i + 1]

\* C13: after is_sat returned on a backend that supports push, the next
\* push, pop, add_assertion, reset_assertions or is_sat first pops the level
\* is_sat opened, removing its formula, and then does its own work: it acts
\* on the stacks as they were before is_sat.
C13_NextCallDischargesPendingPop ==
    [][(/\ last.op = "is_sat" /\ last.outcome = "ok" /\ push_supported
        /\ last'.op \in StackMutating /\ last'.outcome = "ok")
       => LET as0 == last.pre_as
              bt0 == last.pre_bt
              r == PopLoop(as0, bt0, last'.k)
          IN CASE last'.op = "push" ->
                    /\ assertions' = as0
                    /\ backtrack_points' = AppendPoints(bt0, Len(as0), last'.k)
               [] last'.op = "pop" ->
                    assertions' = r.stack /\ backtrack_points' = r.points
               [] last'.op = "add_assertion" ->
                    /\ assertions' = Append(as0, TokenOf(last'.f))
                    /\ backtrack_points' = bt0
               [] last'.op = "reset_assertions" ->
                    IsPrefix(assertions', as0) /\ backtrack_points' = bt0
               [] last'.op = "is_sat" ->
                    /\ assertions' = Append(as0, TokenOf(last'.f))
                    /\ backtrack_points' = Append(bt0, Len(as0))]_vars

\* C14: when is_sat returns on a backend that supports push it has called
\* push, add_assertion and solve() in this order and no pop: one more level
\* is open, the token of the formula is the last of `assertions`,
\* pending_pop is True, last_command is "solve" and the value returned is
\* the result of that solve.
C14_IsSatPushPath ==
    (last.op = "is_sat" /\ last.outcome = "ok" /\ push_supported)
    => (/\ last.calls = <<"push", "add_assertion", "solve()">>
        /\ backtrack_points = Append(last.pre_bt, Len(last.pre_as))
        /\ assertions = Append(last.pre_as, TokenOf(last.f))
        /\ last.seen = FormulasOf(assertions)
        /\ pending_pop = TRUE
        /\ last_command = "solve"
        /\ last.ret = last_result /\ last.ret \in {"True", "False"})

\* is_sat(g) returned with f asserted before, pending_pop not yet set
C14_Witness ==
    /\ last.op = "is_sat" /\ last.outcome = "ok" /\ push_supported
    /\ ~last.pre_pp /\ pending_pop
    /\ Len(last.pre_as) = 1
    /\ assertions[2] = TokenOf(last.f)
    /\ Len(backtrack_points) = Len(last.pre_bt) + 1

\* C15: when the proxy _push or _pop raises, push / pop propagates the error
\* and the assertion stack, the backtrack-point stack, last_command and
\* last_result are as before the call.
C15_ProxyFailureChangesNothing ==
    [][(last'.op \in {"push", "pop"} /\ last'.outcome \in {"Error", "NotImplementedError"})
       => (/\ last'.prop = last'.outcome
           /\ UNCHANGED <<assertion_stack, backtrack_points, last_command,
                          last_result>>)]_vars

\* _pop raised while a level was open with an assertion above its point
C15_Witness ==
    /\ last.op = "pop" /\ last.outcome = "Error" /\ last.k >= 1
    /\ backtrack_points # <<>>
    /\ backtrack_points[Len(backtrack_points)] < Len(assertions)
    /\ assertions = last.pre_as /\ backtrack_points = last.pre_bt
    /\ last_command # "pop"

\* C16: after every solve call, whether _solve returned, raised the
\* unknown-result error or raised another exception, last_command is "solve".
C16_SolveAlwaysLastCommand ==
    last.op = "solve" => last_command = "solve"

\* _solve raised an exception other than the unknown-result error: the
\* result of the earlier solve stays, the command is recorded
C16_Witness ==
    /\ last.op = "solve" /\ last.outcome = "Error"
    /\ last.pre_lr = "True" /\ last_result = "True"
    /\ last_command = "solve"

\* C17: a push of several levels records one boundary that each of its levels
\* pops back to. push(k) at the assertions L appends Len(L) exactly k times to
\* the backtrack points; after it, any number of add_assertion calls and no
\* further push, every one of the k following pop(1) calls whose backend call
\* returns succeeds and leaves `assertions` equal to L.
C17_MultiLevelPushOneBoundary ==
    /\ (last.op = "push" /\ last.outcome = "ok") =>
           /\ backtrack_points =
                  last.pre_bt \o [i \in 1..last.k |-> Len(last.pre_as)]
           /\ last.k >= 1 => (ep.k = last.k /\ ep.base = last.pre_as)
    /\ (last.op = "pop" /\ last.k = 1 /\ last.outcome # "Error" /\ ep.left < ep.k) =>
           /\ last.outcome = "ok"
           /\ assertions = ep.base
           /\ Len(backtrack_points) = Len(last.pre_bt) - 1

\* the second pop(1) after push(2) at a non-empty stack and an add_assertion
C17_Witness ==
    /\ last.op = "pop" /\ last.k = 1 /\ last.outcome = "ok"
    /\ ep.k = 2 /\ ep.left = 0 /\ ep.grown
    /\ Len(ep.base) >= 1
    /\ last.pre_as = ep.base
    /\ assertions = ep.base

\* C18: as long as every push, pop and add_assertion has returned normally,
\* `assertions` is the content of the reference scoped assertion set: the
\* tokens of its open frames concatenated bottom to top, in insertion order,
\* and there is one backtrack point per frame above the bottom one.
C18_AssertionsMatchFrames ==
    all_ok =>
        /\ assertions = Flatten(frames)
        /\ Len(frames) = Len(backtrack_points) + 1

\* a pop has closed a frame above two frames that hold different tokens
C18_Witness ==
    /\ all_ok
    /\ last.op = "pop" /\ last.k >= 1 /\ last.outcome = "ok"
    /\ Len(frames) = 2
    /\ frames[1] # <<>> /\ frames[2] # <<>>
    /\ frames[1][1] # frames[2][1]
    /\ assertions = Flatten(frames)

\* C19: the backtrack-point stack is non-decreasing from bottom to top and
\* none of its entries exceeds the length of the assertion stack; hence the
\* list after a pop is a prefix of the list before it.
C19_PointsOrderedAndBounded ==
    /\ NonDecreasing(backtrack_points)
    /\ \A i \in 1..Len(backtrack_points) : backtrack_points[i] <= Len(assertions)
    /\ last.op = "pop"
       => (Len(assertions) <= Len(last.pre_as) /\ IsPrefix(assertions, last.pre_as))

\* a pop shortened the list while a lower level with a smaller point stays open
C19_Witness ==
    /\ last.op = "pop" /\ last.outcome = "ok"
    /\ Len(assertions) < Len(last.pre_as)
    /\ backtrack_points # <<>>
    /\ backtrack_points[Len(backtrack_points)] < Len(assertions)

\* C20: when the solve() of is_sat's push path raises, the exception leaves
\* is_sat with the level it pushed still open and its formula still in
\* `assertions`, and pending_pop has the value it had before the call.
C20_IsSatSolveRaises ==
    (/\ last.op = "is_sat" /\ last.calls = <<"push", "add_assertion", "solve()">>
     /\ last.outcome # "ok")
    => (/\ last.prop = last.outcome
        /\ last.outcome \in {"UnknownResult", "Error"}
        /\ backtrack_points = Append(last.pre_bt, Len(last.pre_as))
        /\ assertions = Append(last.pre_as, TokenOf(last.f))
        /\ pending_pop = last.pre_pp)

\* the unknown-result error left is_sat with no pop marked as pending
C20_Witness ==
    /\ last.op = "is_sat" /\ last.outcome = "UnknownResult" /\ push_supported
    /\ ~last.pre_pp /\ ~pending_pop
    /\ Len(backtrack_points) = Len(last.pre_bt) + 1
    /\ last_result = "unknown"
====
